---- MODULE Spec2Model ----
(***************************************************************************)
(* Appointment token assignment of the HamroSwasthya API (src/main.py):    *)
(* POST /bookings (book_appointment), POST /token/update (update_token)    *)
(* and GET /token/status (token_status) over the MongoDB collections       *)
(* "tokenfeed" and "booking".                                              *)
(*                                                                         *)
(* Python values are modelled as follows.  A str is a sequence of          *)
(* one-character strings.  A dict / BSON document is a record whose        *)
(* DOMAIN is the set of keys present; the empty dict and None (the result  *)
(* of a find_one without match) are the function with empty domain.  An    *)
(* Optional[int] is a sequence of length <= 1: <<>> is None, <<n>> is n.   *)
(* A collection is the sequence of its documents in insertion order.  An   *)
(* ObjectId generated by the store is [oid |-> n], n the insertion number. *)
(* The created_at / updated_at stamps of create_document are not modelled. *)
(***************************************************************************)
EXTENDS FiniteSets, Integers, Sequences, TLC

\* Number of client requests of the concurrent specification.
NumReq == 2
\* Number of client requests of the sequential specification.
NumSeqReq == 3

-----------------------------------------------------------------------------
\* Strings

Digits == <<"0", "1", "2", "3", "4", "5", "6", "7", "8", "9">>
HexDigits == Digits \o <<"a", "b", "c", "d", "e", "f">>
HexChars == {HexDigits[i] : i \in DOMAIN HexDigits} \cup {"A", "B", "C", "D", "E", "F"}

\* n in base `base`, zero-padded to w characters
RECURSIVE Pad(_, _, _)
Pad(n, w, base) ==
    IF w = 0 THEN <<>>
    ELSE Pad(n \div base, w - 1, base) \o <<HexDigits[(n % base) + 1]>>

\* b.date.strftime('%Y-%m-%d') for a datetime of a four-digit year
strftime(dt) ==
    Pad(dt.year, 4, 10) \o <<"-">> \o Pad(dt.month, 2, 10) \o <<"-">> \o Pad(dt.day, 2, 10)

\* ASCII whitespace, which bytes.fromhex skips between bytes: space, tab, line
\* feed, vertical tab (U+000B, written as the character itself), form feed and
\* carriage return
Whitespace == {" ", "\t", "\n", "", "\f", "\r"}

\* bytes.fromhex(s) does not raise: pairs of hexadecimal digits, with whitespace
\* allowed before each pair and at the end, not inside a pair
RECURSIVE FromHexOk(_)
FromHexOk(s) ==
    IF s = <<>> THEN TRUE
    ELSE IF s[1] \in Whitespace THEN FromHexOk(Tail(s))
    ELSE IF Len(s) >= 2 /\ s[1] \in HexChars /\ s[2] \in HexChars THEN FromHexOk(Tail(Tail(s)))
    ELSE FALSE

\* ObjectId(s) does not raise: the constructor of the bson library takes a str
\* of length 24 that bytes.fromhex accepts (it does not count the bytes)
ObjectIdValid(s) == Len(s) = 24 /\ FromHexOk(s)

\* str(ObjectId): 24 hexadecimal characters
ObjectIdStr(id) == Pad(id.oid, 24, 16)

\* Variant: the feed is keyed by the doctor alone.
FeedName_doctorOnly(doctor_id, date) ==
    <<"t", "o", "k", "e", "n", "f", "e", "e", "d", "_">> \o doctor_id

\* f"tokenfeed_{doctor_id}_{date}"
FeedName(doctor_id, date) ==
    <<"t", "o", "k", "e", "n", "f", "e", "e", "d", "_">> \o doctor_id \o <<"_">> \o date

-----------------------------------------------------------------------------
\* The document store

NoDoc == [f \in {} |-> 0]

Matches(coll, filt) ==
    {i \in DOMAIN coll : \A f \in DOMAIN filt : f \in DOMAIN coll[i] /\ coll[i][f] = filt[f]}

Min(S) == CHOOSE i \in S : \A j \in S : i <= j

\* collection.find_one(filt): the first matching document, or None
find_one(coll, filt) ==
    IF Matches(coll, filt) = {} THEN NoDoc ELSE coll[Min(Matches(coll, filt))]

\* Variant: the update document replaces the stored one (no "$set").
SetFields_replace(doc, upd) ==
    [f \in (DOMAIN doc \cap {"_id"}) \cup DOMAIN upd |-> IF f \in DOMAIN upd THEN upd[f] ELSE doc[f]]

\* {"$set": upd} applied to doc
SetFields(doc, upd) ==
    [f \in DOMAIN doc \cup DOMAIN upd |-> IF f \in DOMAIN upd THEN upd[f] ELSE doc[f]]

\* the ObjectId the store gives the next inserted document
NewId(coll) == [oid |-> Len(coll) + 1]

\* Variant: update_one without upsert=True.
update_one_noUpsert(coll, filt, upd) ==
    IF Matches(coll, filt) = {}
    THEN coll
    ELSE [coll EXCEPT ![Min(Matches(coll, filt))] = SetFields(@, upd)]

\* collection.update_one(filt, {"$set": upd}, upsert=True)
update_one_upsert(coll, filt, upd) ==
    IF Matches(coll, filt) = {}
    THEN Append(coll, SetFields(SetFields([_id |-> NewId(coll)], filt), upd))
    ELSE [coll EXCEPT ![Min(Matches(coll, filt))] = SetFields(@, upd)]

\* collection.insert_one(doc)
insert_one(coll, doc) == Append(coll, SetFields([_id |-> NewId(coll)], doc))

-----------------------------------------------------------------------------
\* Inputs

Hex24(last) == [i \in 1..24 |-> IF i = 24 THEN last ELSE "a"]
DocA == Hex24("1")
BadId == <<"d", "_", "1">>
Spaced == [i \in 1..24 |-> IF i = 24 THEN " " ELSE IF i = 23 THEN "\f"
                         ELSE IF i > 20 THEN "F" ELSE "a"]

Morning1 == [year |-> 2024, month |-> 6, day |-> 1, hour |-> 9]
Evening1 == [year |-> 2024, month |-> 6, day |-> 1, hour |-> 17]
Morning2 == [year |-> 2024, month |-> 6, day |-> 2, hour |-> 9]

\* schemas.Booking with the status default
Booking(doctor_id, date, token) ==
    [user_id |-> <<"u">>, doctor_id |-> doctor_id, date |-> date, token |-> token,
     status |-> "booked"]

\* Booking request bodies
Bookings ==
    { Booking(DocA, Morning1, <<>>), Booking(DocA, Evening1, <<7>>),
      Booking(DocA, Morning2, <<>>), Booking(Spaced, Morning1, <<7>>),
      Booking(BadId, Morning1, <<>>) }

\* TokenUpdate request bodies and token_status query parameters
DateStrs == {strftime(Morning1), <<"2", "0", "2", "4", "-", "6", "-", "1">>}
DoctorStrs == {DocA}
TokenUpdates == [doctor_id : DoctorStrs, date : DateStrs, current_token : {-1, 2}]

-----------------------------------------------------------------------------
\* State

VARIABLES
    tokenfeed,   \* db["tokenfeed"]
    booking,     \* db["booking"]
    pc,          \* per request: position of its handler
    req,         \* per request: endpoint and arguments
    next_token,  \* per request: local variable next_token of book_appointment
    resp         \* per request: the HTTP response

vars == <<tokenfeed, booking, pc, req, next_token, resp>>

Req == DOMAIN pc

InitN(n) ==
    /\ tokenfeed = <<>>
    /\ booking = <<>>
    /\ pc = [r \in 1..n |-> "idle"]
    /\ req = [r \in 1..n |-> [op |-> "none"]]
    /\ next_token = [r \in 1..n |-> 0]
    /\ resp = [r \in 1..n |-> [code |-> 0]]

Init == InitN(NumReq)

\* requests are numbered in order of arrival
Arrives(r) == pc[r] = "idle" /\ (IF r = 1 THEN TRUE ELSE pc[r - 1] # "idle")

InFlight == {r \in Req : pc[r] \in {"find", "update", "insert"}}

\* Variant: the time of day is part of the date key.
date_key_withHour(b) == strftime(b.date) \o <<"T">> \o Pad(b.date.hour, 2, 10)

\* the feed key of a booking request
date_key(b) == strftime(b.date)
feed_name(b) == FeedName(b.doctor_id, date_key(b))

-----------------------------------------------------------------------------
\* POST /bookings

\* lines 236-242: the handler starts and checks the doctor id
book_validate(r, b) ==
    /\ Arrives(r)
    /\ req' = [req EXCEPT ![r] = [op |-> "book", b |-> b]]
    /\ IF ObjectIdValid(b.doctor_id)
       THEN /\ pc' = [pc EXCEPT ![r] = "find"]
            /\ resp' = resp
       ELSE /\ pc' = [pc EXCEPT ![r] = "done"]
            /\ resp' = [resp EXCEPT ![r] = [code |-> 400]]
    /\ UNCHANGED <<tokenfeed, booking, next_token>>

\* line 248
NextToken(feed) ==
    IF DOMAIN feed # {}
    THEN (IF "last_token" \in DOMAIN feed THEN feed.last_token ELSE 0) + 1
    ELSE 1

\* lines 244-248: read the feed and compute the next token
book_find(r) ==
    /\ pc[r] = "find"
    /\ next_token' = [next_token EXCEPT ![r] =
            NextToken(find_one(tokenfeed, [_key |-> feed_name(req[r].b)]))]
    /\ pc' = [pc EXCEPT ![r] = "update"]
    /\ UNCHANGED <<tokenfeed, booking, req, resp>>

\* the $set document of lines 249-253
FeedUpdate(b, tok) ==
    [_key |-> feed_name(b), doctor_id |-> b.doctor_id, date |-> date_key(b), last_token |-> tok]

\* lines 249-253: write the feed
book_update(r) ==
    /\ pc[r] = "update"
    /\ tokenfeed' = update_one_upsert(tokenfeed, [_key |-> feed_name(req[r].b)],
                                      FeedUpdate(req[r].b, next_token[r]))
    /\ pc' = [pc EXCEPT ![r] = "insert"]
    /\ UNCHANGED <<booking, req, next_token, resp>>

\* Variant: the token of the request body is kept.
BookingData_clientToken(b, tok) == b

\* lines 255-256: data = b.model_dump(); data["token"] = next_token
BookingData(b, tok) == [b EXCEPT !.token = <<tok>>]

\* lines 255-258: insert the booking and return
book_insert(r) ==
    /\ pc[r] = "insert"
    /\ booking' = insert_one(booking, BookingData(req[r].b, next_token[r]))
    /\ resp' = [resp EXCEPT ![r] =
            [code |-> 200, id |-> ObjectIdStr(NewId(booking)), token |-> next_token[r]]]
    /\ pc' = [pc EXCEPT ![r] = "done"]
    /\ UNCHANGED <<tokenfeed, req, next_token>>

\* a store operation of book_appointment raises: the request ends with a server error
book_fail(r) ==
    /\ pc[r] \in {"find", "update", "insert"}
    /\ pc' = [pc EXCEPT ![r] = "failed_" \o pc[r]]
    /\ resp' = [resp EXCEPT ![r] = [code |-> 500]]
    /\ UNCHANGED <<tokenfeed, booking, req, next_token>>

-----------------------------------------------------------------------------
\* POST /token/update

\* the $set document of lines 270-274
CurrentUpdate(t) ==
    [_key |-> FeedName(t.doctor_id, t.date), doctor_id |-> t.doctor_id, date |-> t.date,
     current_token |-> t.current_token]

update_token(r, t) ==
    /\ Arrives(r)
    /\ req' = [req EXCEPT ![r] = [op |-> "update", t |-> t]]
    /\ tokenfeed' = update_one_upsert(tokenfeed, [_key |-> FeedName(t.doctor_id, t.date)],
                                      CurrentUpdate(t))
    /\ resp' = [resp EXCEPT ![r] = [code |-> 200, status |-> "ok"]]
    /\ pc' = [pc EXCEPT ![r] = "done"]
    /\ UNCHANGED <<booking, next_token>>

\* lines 269-270: the store operation raises (db is None, or update_one fails);
\* the request ends with a server error and nothing is written
update_token_fail(r, t) ==
    /\ Arrives(r)
    /\ req' = [req EXCEPT ![r] = [op |-> "update", t |-> t]]
    /\ resp' = [resp EXCEPT ![r] = [code |-> 500]]
    /\ pc' = [pc EXCEPT ![r] = "failed_update_token"]
    /\ UNCHANGED <<tokenfeed, booking, next_token>>

-----------------------------------------------------------------------------
\* GET /token/status

\* lines 280-284: the response body
StatusBody(coll, doctor_id, date) ==
    LET feed == find_one(coll, [_key |-> FeedName(doctor_id, date)])
    IN  IF "_id" \in DOMAIN feed
        THEN [feed EXCEPT !._id = ObjectIdStr(feed._id)]
        ELSE feed

\* Variant: the handler creates the feed it does not find.
StatusStore_creates(coll, doctor_id, date) ==
    update_one_upsert(coll, [_key |-> FeedName(doctor_id, date)],
                      [doctor_id |-> doctor_id, date |-> date])

\* lines 280-284 write nothing: the tokenfeed collection after the handler ran
StatusStore(coll, doctor_id, date) == coll

token_status(r, doctor_id, date) ==
    /\ Arrives(r)
    /\ req' = [req EXCEPT ![r] = [op |-> "status", doctor_id |-> doctor_id, date |-> date]]
    /\ resp' = [resp EXCEPT ![r] = [code |-> 200, body |-> StatusBody(tokenfeed, doctor_id, date)]]
    /\ tokenfeed' = StatusStore(tokenfeed, doctor_id, date)
    /\ pc' = [pc EXCEPT ![r] = "done"]
    /\ UNCHANGED <<booking, next_token>>

\* lines 280-281: the store operation raises (db is None, or find_one fails);
\* the request ends with a server error
token_status_fail(r, doctor_id, date) ==
    /\ Arrives(r)
    /\ req' = [req EXCEPT ![r] = [op |-> "status", doctor_id |-> doctor_id, date |-> date]]
    /\ resp' = [resp EXCEPT ![r] = [code |-> 500]]
    /\ pc' = [pc EXCEPT ![r] = "failed_token_status"]
    /\ UNCHANGED <<tokenfeed, booking, next_token>>

-----------------------------------------------------------------------------
\* Specifications

Next ==
    \/ \E r \in Req, b \in Bookings : book_validate(r, b)
    \/ \E r \in Req : book_find(r)
    \/ \E r \in Req : book_update(r)
    \/ \E r \in Req : book_insert(r)
    \/ \E r \in Req : book_fail(r)
    \/ \E r \in Req, t \in TokenUpdates : update_token(r, t)
    \/ \E r \in Req, t \in TokenUpdates : update_token_fail(r, t)
    \/ \E r \in Req, d \in DoctorStrs, dt \in DateStrs : token_status(r, d, dt)
    \/ \E r \in Req, d \in DoctorStrs, dt \in DateStrs : token_status_fail(r, d, dt)

Spec == Init /\ [][Next]_vars

\* Bookings served one after another: a booking request arrives only when no other
\* is in flight; update_token and token_status requests arrive at any time.
InitSeq == InitN(NumSeqReq)

NextSeq ==
    \/ InFlight = {} /\ \E r \in Req, b \in Bookings : book_validate(r, b)
    \/ \E r \in Req : book_find(r)
    \/ \E r \in Req : book_update(r)
    \/ \E r \in Req : book_insert(r)
    \/ \E r \in Req : book_fail(r)
    \/ \E r \in Req, t \in TokenUpdates : update_token(r, t)
    \/ \E r \in Req, t \in TokenUpdates : update_token_fail(r, t)
    \/ \E r \in Req, d \in DoctorStrs, dt \in DateStrs : token_status(r, d, dt)
    \/ \E r \in Req, d \in DoctorStrs, dt \in DateStrs : token_status_fail(r, d, dt)

SpecSeq == InitSeq /\ [][NextSeq]_vars

-----------------------------------------------------------------------------
\* Observations used by the properties

BookReqs == {r \in Req : req[r].op = "book"}
Returned(r) == req[r].op = "book" /\ pc[r] = "done" /\ resp[r].code = 200

\* two booking bodies name the same doctor and the same calendar date
SameDay(b1, b2) ==
    /\ b1.doctor_id = b2.doctor_id
    /\ b1.date.year = b2.date.year
    /\ b1.date.month = b2.date.month
    /\ b1.date.day = b2.date.day

\* the booking requests received so far for the doctor and day of b
Peers(b) == {q \in BookReqs : SameDay(req[q].b, b)}

\* the feed documents of a collection that carry a doctor id and a date string
FeedsOf(coll, doctor_id, date) ==
    {i \in DOMAIN coll : coll[i].doctor_id = doctor_id /\ coll[i].date = date}

\* an optional field of a document: <<>> when absent
Field(doc, f) == IF f \in DOMAIN doc THEN <<doc[f]>> ELSE <<>>

\* last_token of a feed, 0 when the feed or the field is absent
LastOf(coll, key) ==
    LET feed == find_one(coll, [_key |-> key])
    IN  IF "last_token" \in DOMAIN feed THEN feed.last_token ELSE 0

AllKeys ==
    {feed_name(b) : b \in Bookings} \cup {FeedName(t.doctor_id, t.date) : t \in TokenUpdates}

\* persisted bookings of the doctor and day of b
BookingsOf(b) == {i \in DOMAIN booking : SameDay(booking[i], b)}

-----------------------------------------------------------------------------
\* C1: when all N booking requests received for one doctor and day have returned,
\* their tokens are exactly 1..N (no duplicate, no gap), for every interleaving.
C1_ConcurrentTokensGapless ==
    \A r \in BookReqs :
        (ObjectIdValid(req[r].b.doctor_id) /\ \A q \in Peers(req[r].b) : Returned(q))
            => {resp[q].token : q \in Peers(req[r].b)} = 1..Cardinality(Peers(req[r].b))

\* C2: last_token of a feed never decreases, and the feed write of a booking
\* increases it by exactly 1.
C2_LastTokenMonotone ==
    [][ /\ \A k \in AllKeys : LastOf(tokenfeed', k) >= LastOf(tokenfeed, k)
        /\ \A r \in BookReqs :
              (pc[r] = "update" /\ pc'[r] = "insert")
                  => LastOf(tokenfeed', feed_name(req[r].b))
                        = LastOf(tokenfeed, feed_name(req[r].b)) + 1 ]_vars

\* C3: with no booking in flight, also after failed requests, the feed of every
\* doctor and day counts the persisted bookings and these carry the tokens
\* 1..last_token: a request took effect entirely or not at all.
C3_AllOrNothing ==
    InFlight = {} =>
        \A b \in Bookings :
            /\ LastOf(tokenfeed, feed_name(b)) = Cardinality(BookingsOf(b))
            /\ {booking[i].token : i \in BookingsOf(b)}
                  = {<<n>> : n \in 1..LastOf(tokenfeed, feed_name(b))}

\* the native identifier format of the store: 24 hexadecimal digits
IsObjectIdHex(s) == Len(s) = 24 /\ \A i \in DOMAIN s : s[i] \in HexChars

\* C4: a booking request whose doctor_id is not a well-formed store identifier (24
\* hexadecimal digits) ends at once with a 400 response, and its step changes
\* neither tokenfeed nor booking.
C4_InvalidDoctorRejected ==
    [][ \A r \in Req :
           (req'[r].op = "book" /\ ~IsObjectIdHex(req'[r].b.doctor_id))
               => /\ pc'[r] = "done" /\ resp'[r].code = 400
                  /\ (pc[r] # pc'[r] => tokenfeed' = tokenfeed /\ booking' = booking) ]_vars

\* C5: a step of a booking request leaves the feed document of every other
\* (doctor_id, date) unchanged, and a booking that finds no feed document for its
\* own doctor and date gets token 1 whatever the other feeds hold.
C5_KeysIndependent ==
    [][ \A r \in BookReqs :
           pc'[r] # pc[r] =>
               /\ \A i \in DOMAIN tokenfeed :
                     i \notin FeedsOf(tokenfeed, req[r].b.doctor_id, strftime(req[r].b.date))
                         => tokenfeed'[i] = tokenfeed[i]
               /\ (pc[r] = "find" /\ pc'[r] = "update"
                   /\ FeedsOf(tokenfeed, req[r].b.doctor_id, strftime(req[r].b.date)) = {})
                         => next_token'[r] = 1 ]_vars

C5_Witness ==
    \E r, q \in BookReqs :
        /\ r < q /\ Returned(r) /\ Returned(q)
        /\ req[r].b.doctor_id = req[q].b.doctor_id
        /\ req[r].b.date.day # req[q].b.date.day
        /\ resp[r].token = 1 /\ resp[q].token = 1
        /\ Len(tokenfeed) = 2

\* C6: with bookings served one after another and none of those received for a
\* doctor and day failed, the k-th of them returns token k, and once all of them
\* have returned the feed's last_token is their number.
C6_SequentialTokens ==
    \A r \in BookReqs :
        (\A q \in Peers(req[r].b) : pc[q] \notin {"failed_find", "failed_update", "failed_insert"})
            => /\ Returned(r) =>
                    resp[r].token = Cardinality({q \in Peers(req[r].b) : q <= r})
               /\ (\A q \in Peers(req[r].b) : Returned(q)) =>
                    Field(find_one(tokenfeed, [_key |-> feed_name(req[r].b)]), "last_token")
                        = <<Cardinality(Peers(req[r].b))>>

C6_Witness ==
    \E r \in BookReqs :
        /\ Returned(r) /\ resp[r].token = 3
        /\ \E q \in Peers(req[r].b) : req[q].b.date.hour # req[r].b.date.hour

\* C7: update_token answers 200 or, when the store fails, 500, never a rejection
\* of its value; when it answers 200 for current_token = v it leaves a store in
\* which token_status of the same doctor_id and date answers current_token = v,
\* and a token_status request that arrives next after it and is answered by the
\* store gets that value.
C7_StatusReturnsCurrent ==
    [][ \A r \in Req :
           /\ (pc[r] = "idle" /\ req'[r].op = "update")
                 => /\ resp'[r].code \in {200, 500}
                    /\ resp'[r].code = 500 => pc'[r] = "failed_update_token"
                    /\ resp'[r].code = 200 =>
                          Field(StatusBody(tokenfeed', req'[r].t.doctor_id, req'[r].t.date),
                                "current_token") = <<req'[r].t.current_token>>
           /\ (r > 1 /\ pc[r] = "idle" /\ req'[r].op = "status" /\ resp'[r].code = 200
               /\ req[r - 1].op = "update" /\ resp[r - 1].code = 200
               /\ req'[r].doctor_id = req[r - 1].t.doctor_id /\ req'[r].date = req[r - 1].t.date)
                 => Field(resp'[r].body, "current_token") = <<req[r - 1].t.current_token>> ]_vars

C7_Witness ==
    \E r \in Req :
        /\ r > 1 /\ req[r].op = "status" /\ req[r - 1].op = "update"
        /\ req[r].doctor_id = req[r - 1].t.doctor_id /\ req[r].date = req[r - 1].t.date
        /\ resp[r].code = 200 /\ resp[r - 1].code = 200
        /\ Field(resp[r].body, "current_token") = <<2>>
        /\ Field(resp[r].body, "last_token") = <<1>>

\* C8: the step of token_status changes neither tokenfeed nor booking, whether the
\* store answers or fails; when the store answers, the response is 200, and for a
\* key without feed document it is the empty object.
C8_StatusReadOnly ==
    [][ \A r \in Req :
           (pc[r] = "idle" /\ req'[r].op = "status")
               => /\ tokenfeed' = tokenfeed /\ booking' = booking
                  /\ resp'[r].code \in {200, 500}
                  /\ resp'[r].code = 500 => pc'[r] = "failed_token_status"
                  /\ (resp'[r].code = 200
                      /\ Matches(tokenfeed, [_key |-> FeedName(req'[r].doctor_id, req'[r].date)]) = {})
                        => resp'[r].body = NoDoc ]_vars

C8_Witness ==
    \E r, q \in Req :
        /\ req[r].op = "status" /\ resp[r].code = 200 /\ resp[r].body = NoDoc
        /\ req[q].op = "status" /\ resp[q].code = 200 /\ resp[q].body # NoDoc
        /\ tokenfeed # <<>>

\* C9: the booking a returned request names by its id carries the token returned,
\* which is the value the request wrote to last_token; every persisted booking
\* belongs to one returned request; a persisted booking never changes.
C9_StoredTokenIsReturned ==
    [][ /\ \A r \in BookReqs :
              /\ (pc[r] = "update" /\ pc'[r] = "insert")
                    => Field(find_one(tokenfeed', [_key |-> feed_name(req[r].b)]), "last_token")
                          = <<next_token[r]>>
              /\ pc[r] \in {"update", "insert"} => next_token'[r] = next_token[r]
              /\ (pc[r] = "insert" /\ pc'[r] = "done")
                    => /\ resp'[r].token = next_token[r]
                       /\ \E i \in DOMAIN booking' :
                             /\ ObjectIdStr(booking'[i]._id) = resp'[r].id
                             /\ booking'[i].token = <<resp'[r].token>>
                             /\ \A j \in DOMAIN booking' : booking'[j]._id = booking'[i]._id => j = i
        /\ Len(booking') = Cardinality({r \in Req : req'[r].op = "book" /\ pc'[r] = "done"
                                                       /\ resp'[r].code = 200})
        /\ \A i \in DOMAIN booking : i \in DOMAIN booking' /\ booking'[i] = booking[i] ]_vars

C9_Witness ==
    \E r \in BookReqs :
        /\ Returned(r) /\ req[r].b.token = <<7>>
        /\ \E i \in DOMAIN booking :
              ObjectIdStr(booking[i]._id) = resp[r].id /\ booking[i].token = <<resp[r].token>>
        /\ \E q \in BookReqs : q # r /\ Returned(q) /\ resp[q].id # resp[r].id

\* C10: no step of a booking request changes the current_token of any feed (present
\* or absent), no step of update_token changes the last_token of any feed, and a
\* booking that finds a feed document without last_token gets token 1.
C10_CountersIndependent ==
    [][ /\ \A r \in BookReqs :
              /\ pc'[r] # pc[r] =>
                    \A k \in AllKeys :
                        Field(find_one(tokenfeed', [_key |-> k]), "current_token")
                            = Field(find_one(tokenfeed, [_key |-> k]), "current_token")
              /\ (pc[r] = "find" /\ pc'[r] = "update"
                  /\ Field(find_one(tokenfeed, [_key |-> feed_name(req[r].b)]), "last_token") = <<>>)
                    => next_token'[r] = 1
        /\ \A r \in Req :
              (pc[r] = "idle" /\ req'[r].op = "update")
                  => \A k \in AllKeys :
                        Field(find_one(tokenfeed', [_key |-> k]), "last_token")
                            = Field(find_one(tokenfeed, [_key |-> k]), "last_token") ]_vars

C10_Witness ==
    \E r, q \in Req :
        /\ r < q /\ req[r].op = "update" /\ resp[r].code = 200
        /\ Returned(q) /\ resp[q].token = 1
        /\ FeedName(req[r].t.doctor_id, req[r].t.date) = feed_name(req[q].b)
        /\ Field(StatusBody(tokenfeed, req[r].t.doctor_id, req[r].t.date), "current_token")
              = <<req[r].t.current_token>>
        /\ Field(StatusBody(tokenfeed, req[r].t.doctor_id, req[r].t.date), "last_token") = <<1>>

====
